---- MODULE Spec2Model ----
(***************************************************************************)
(* Login session state machine and session registry of the Facebook login  *)
(* automation server (server.js + helpers.js).                             *)
(*                                                                         *)
(* Strings that the code builds, splits or compares are sequences of       *)
(* tokens: a token is either one character that the code treats specially  *)
(* ("@", ".", ":", "_", "-") or a run of characters without any of them.    *)
(* Every HTTP request is a process that is interleaved with the others at  *)
(* its await points.  Every awaited call into the browser automation       *)
(* library may reject; helpers that catch internally turn the rejection    *)
(* into their fallback value, as in the source.                            *)
(***************************************************************************)
EXTENDS Integers, Sequences, FiniteSets, TLC

MaxTime == 2

MaxConcTime == 1

MaxRaceTime == 2

MaxQuickTime == 2

MaxStamp == 1
MaxQuickCloseTime == 2
MaxStoreTime == 2
MaxSecretTime == 2

\* const maxAge = 7 * 24 * 60 * 60 * 1000 (milliseconds)
maxAge == 604800000

Procs == {"p1", "p2"}

MainIdentity == <<"u", "@", "x">>

Identities == { MainIdentity, <<"u", ":", "x">> }

Versions == {"mobile", "desktop"}

VersionChoices == {"auto", "mobile", "desktop"}

NoSid == <<>>

NoBrowser == 0

VARIABLES activeSessions, pending2FASessions, browsers, page,
          cookieFiles, sessionFiles, cacheDirs, now, req

vars == <<activeSessions, pending2FASessions, browsers, page,
          cookieFiles, sessionFiles, cacheDirs, now, req>>

-----------------------------------------------------------------------------
(* Strings *)

\* email.replace(/[@.]/g, '_')
Sanitize(email) ==
    [i \in 1..Len(email) |-> IF email[i] \in {"@", "."} THEN "_" ELSE email[i]]

\* `${quickLogin ? 'quick-' : ''}${sanitized}-${version}-${Date.now()}`
SessionIdOf(quickLogin, email, version, t) ==
    (IF quickLogin THEN <<"quick", "-">> ELSE <<>>)
        \o Sanitize(email) \o <<"-", version, "-", ToString(t)>>

\* `2FA_REQUIRED:${sessionId}:${version}`
SignalMessage(sessionId, version) ==
    <<"2FA_REQUIRED", ":">> \o sessionId \o <<":", version>>

\* error.message.startsWith('2FA_REQUIRED:')
Is2FASignal(msg) ==
    Len(msg) >= 2 /\ msg[1] = "2FA_REQUIRED" /\ msg[2] = ":"

\* String.prototype.split(':')
RECURSIVE SplitColon(_)
SplitColon(s) ==
    IF \A i \in 1..Len(s) : s[i] # ":"
    THEN <<s>>
    ELSE LET k == CHOOSE i \in 1..Len(s) :
                      s[i] = ":" /\ \A j \in 1..(i - 1) : s[j] # ":"
         IN  <<SubSeq(s, 1, k - 1)>> \o SplitColon(SubSeq(s, k + 1, Len(s)))

\* parts[n] of a JavaScript array (0-based); undefined is the empty string here
Part(parts, n) == IF n + 1 <= Len(parts) THEN parts[n + 1] ELSE <<>>

-----------------------------------------------------------------------------
(* pending2FASessions: a Map, kept in insertion order *)

PendingHas(m, sid) == \E i \in 1..Len(m) : m[i].sid = sid

PendingGet(m, sid) == m[CHOOSE i \in 1..Len(m) : m[i].sid = sid]

PendingSet(m, sid, data) ==
    IF PendingHas(m, sid)
    THEN [i \in 1..Len(m) |-> IF m[i].sid = sid THEN data ELSE m[i]]
    ELSE Append(m, data)

PendingDelete(m, sid) == SelectSeq(m, LAMBDA e : e.sid # sid)

PendingIds(m) == { m[i].sid : i \in 1..Len(m) }

\* Array.from(pending2FASessions.entries()).find(([id, data]) =>
\*     data.email === email && data.version === version)?.[0]
PendingFind(m, email, version) ==
    LET hits == { i \in 1..Len(m) : m[i].email = email /\ m[i].version = version }
    IN  IF hits = {} THEN NoSid
        ELSE m[CHOOSE i \in hits : \A j \in hits : i <= j].sid

-----------------------------------------------------------------------------
(* Pages.  A page is what the browser of a session shows; the checks of     *)
(* helpers.js read it.                                                     *)

\* what the site may show after the login click or after the 2FA submit click
\* ("checkpoint": a second-factor page that only the URL patterns and the
\* further indicators of checkFor2FA recognise, and that has no login field)
AfterSubmitPages == {"twofa", "late2fa", "checkpoint", "home", "login"}

PageKinds == {"blank", "gone"} \cup AfterSubmitPages

IsOpen(b) == b # NoBrowser /\ browsers[b] = "open"

\* browser.close(): of a closed page only page.url() still answers
ClosedPage(kind) == IF kind = "home" THEN "home" ELSE "gone"

\* what the probes of the two checks find on a page of each kind:
\*   common     an indicator of the list that both checks probe is visible
\*   further    an indicator that only checkFor2FA probes is visible
\*   url2FA     the URL contains one of twoFAUrlPatterns
\*   urlHome    the URL contains one of successUrls
\*   loginForm  input[name="email"] or input[type="password"] is on the page
Indicators(kind) ==
    [common    |-> kind = "twofa",
     further   |-> kind \in {"twofa", "checkpoint"},
     url2FA    |-> kind \in {"twofa", "checkpoint"},
     urlHome   |-> kind = "home",
     loginForm |-> kind = "login"]

\* checkFor2FA: page.title() throws on a closed page and the catch returns
\* false; otherwise the whole indicator list, then the URL patterns
checkFor2FA(b) ==
    /\ IsOpen(b)
    /\ \/ Indicators(page[b]).common
       \/ Indicators(page[b]).further
       \/ Indicators(page[b]).url2FA

\* checkLoginSuccess: its own copy of the 2FA indicators first, then the URL
\* (page.url() also answers on a closed page), then the absence of login fields
checkLoginSuccess(b) ==
    /\ b # NoBrowser
    /\ ~ (IsOpen(b) /\ Indicators(page[b]).common)
    /\ \/ Indicators(page[b]).urlHome
       \/ IsOpen(b) /\ ~ Indicators(page[b]).loginForm

\* findElement: a selector is visible only on an open page that shows the
\* login form, and each isVisible probe may time out (visible = FALSE)
findElement(b, visible) == IsOpen(b) /\ page[b] = "login" /\ visible

-----------------------------------------------------------------------------
(* Requests *)

NoResult ==
    [status |-> 0, success |-> FALSE, sessionId |-> NoSid, requires2FA |-> FALSE,
     stillRequires2FA |-> FALSE, version |-> <<>>, error |-> <<>>,
     message |-> <<>>, attempts |-> <<>>, filesDeleted |-> 0, accounts |-> {}]

IdleReq ==
    [op |-> "idle", pc |-> "idle", email |-> <<>>, choice |-> "auto",
     version |-> "mobile", sid |-> NoSid, browser |-> NoBrowser, err |-> <<>>,
     seen |-> "none", mobile |-> [sid |-> NoSid, browser |-> NoBrowser],
     handle |-> TRUE, first |-> NoResult, result |-> NoResult, password |-> <<>>]

Init ==
    /\ activeSessions = <<>>
    /\ pending2FASessions = <<>>
    /\ browsers = <<>>
    /\ page = <<>>
    /\ cookieFiles = <<>>
    /\ sessionFiles = <<>>
    /\ cacheDirs = {}
    /\ now = 0
    /\ req = [p \in Procs |-> IdleReq]

-----------------------------------------------------------------------------
(* Artifact store *)

CookieFileName(email) == Sanitize(email) \o <<"_cookies.json">>

SessionFileName(email) == Sanitize(email) \o <<"_session.json">>

CacheDirName(email, version) == Sanitize(email) \o <<"_", version>>

WriteFile(files, name, data) ==
    [n \in DOMAIN files \cup {name} |-> IF n = name THEN data ELSE files[n]]

\* saveCookies followed by saveSessionState (which saves the cookies again):
\* both swallow their errors.  wrote = "both", "cookies" (the page calls of
\* saveSessionState rejected) or "none" (context.cookies() rejected).
SaveArtifacts(wrote, email, sid) ==
    /\ cookieFiles' =
         IF wrote \in {"both", "cookies"}
         THEN WriteFile(cookieFiles, CookieFileName(email),
                        [email |-> email, by |-> sid, timestamp |-> now])
         ELSE cookieFiles
    /\ sessionFiles' =
         IF wrote = "both"
         THEN WriteFile(sessionFiles, SessionFileName(email),
                        [email |-> email, by |-> sid, timestamp |-> now])
         ELSE sessionFiles

\* a variant of loadCookies that does not look at the age of the file
loadCookies_NoAgeCheck(files, email, t) ==
    CookieFileName(email) \in DOMAIN files

\* loadCookies: the cookie file exists and is not older than maxAge at time t
loadCookies(files, email, t) ==
    /\ CookieFileName(email) \in DOMAIN files
    /\ ~ (t - files[CookieFileName(email)].timestamp > maxAge)

\* the outcomes the two save calls can have on browser b
SaveOutcomes(b) == IF IsOpen(b) THEN {"both", "cookies", "none"} ELSE {"none"}

-----------------------------------------------------------------------------
(* Registry *)

Register(sessions, sid, rec) ==
    [k \in DOMAIN sessions \cup {sid} |-> IF k = sid THEN rec ELSE sessions[k]]

Unregister(sessions, sid) ==
    [k \in DOMAIN sessions \ {sid} |-> sessions[k]]

\* a variant of the listing that copies the password of the Session Record
SessionList_WithPassword(sessions) ==
    { [sessionId |-> k, email |-> sessions[k].email,
       version |-> sessions[k].version,
       quickLogin |-> sessions[k].quickLogin,
       createdAt |-> sessions[k].createdAt,
       password |-> sessions[k].password] : k \in DOMAIN sessions }

\* getActiveSessions (GET /sessions)
SessionList(sessions) ==
    { [sessionId |-> k, email |-> sessions[k].email,
       version |-> sessions[k].version,
       quickLogin |-> sessions[k].quickLogin,
       createdAt |-> sessions[k].createdAt] : k \in DOMAIN sessions }

getActiveSessions == SessionList(activeSessions)

\* GET /pending-2fa
getPending2FA ==
    { [sessionId |-> pending2FASessions[i].sid,
       email |-> pending2FASessions[i].email,
       version |-> pending2FASessions[i].version,
       timestamp |-> pending2FASessions[i].timestamp] :
         i \in 1..Len(pending2FASessions) }

-----------------------------------------------------------------------------
(* POST /login -> performFacebookLoginPersistent -> attemptLoginWithVersion *)

\* the failure object that the catch of attemptLoginWithVersion returns
AttemptFailure(version, msg) ==
    [NoResult EXCEPT !.status = 401, !.version = <<version>>, !.error = msg]

AttemptSuccess(version, sid) ==
    [NoResult EXCEPT !.status = 200, !.success = TRUE, !.sessionId = sid,
                     !.version = <<version>>]

\* the requires2FA object that performFacebookLoginPersistent returns
Requires2FA(sid, version) ==
    [NoResult EXCEPT !.status = 401, !.sessionId = sid, !.requires2FA = TRUE,
                     !.version = version]

\* the 500 answer of the route's catch
ServerError(msg) ==
    [NoResult EXCEPT !.status = 500, !.error = <<"Error interno del servidor: ">> \o msg]

Done(r, res) == [r EXCEPT !.pc = "done", !.result = res]

\* auto: the desktop attempt begins (its session id is computed at once)
DesktopAttempt(r, t) ==
    [r EXCEPT !.pc = "launch", !.version = "desktop",
              !.sid = SessionIdOf(FALSE, r.email, "desktop", t),
              !.browser = NoBrowser, !.err = <<>>,
              !.mobile = [sid |-> r.sid, browser |-> r.browser]]

\* the final return of the auto branch reads mobileResult and desktopResult,
\* which are block-scoped to the try blocks above it
BothFailedReturn(r) == Done(r, ServerError(<<"mobileResult is not defined">>))

\* attemptLoginWithVersion returned res to performFacebookLoginPersistent
AttemptReturned(r, res, t) ==
    IF r.choice # "auto" \/ res.success THEN Done(r, res)
    ELSE IF r.version = "mobile" THEN DesktopAttempt(r, t)
    ELSE BothFailedReturn(r)

\* attemptLoginWithVersion threw msg to performFacebookLoginPersistent
AttemptThrew(r, msg, pending, t) ==
    IF Is2FASignal(msg)
    THEN LET parts == SplitColon(msg)
         IN  Done(r, Requires2FA(Part(parts, 1), Part(parts, 2)))
    ELSE LET found == PendingFind(pending, r.email, r.version)
         IN  IF found # NoSid THEN Done(r, Requires2FA(found, <<r.version>>))
             ELSE IF r.choice # "auto" THEN Done(r, ServerError(msg))
             ELSE IF r.version = "mobile" THEN DesktopAttempt(r, t)
             ELSE BothFailedReturn(r)

\* a throw inside the try block of attemptLoginWithVersion
Throw(r, msg) == [r EXCEPT !.pc = "catch", !.err = msg]

\* POST /login {email, password, version} arrives
StartLoginWith(p, email, choice, password) ==
    /\ req[p].op = "idle"
    /\ LET v == IF choice = "desktop" THEN "desktop" ELSE "mobile"
       IN  req' = [req EXCEPT ![p] =
                 [IdleReq EXCEPT !.op = "login", !.pc = "launch", !.email = email,
                                 !.choice = choice, !.version = v,
                                 !.password = password,
                                 !.sid = SessionIdOf(FALSE, email, v, now)]]
    /\ UNCHANGED <<activeSessions, pending2FASessions, browsers, page,
                   cookieFiles, sessionFiles, cacheDirs, now>>

\* the same with the one password the other specifications use
StartLogin(p, email, choice) == StartLoginWith(p, email, choice, <<"secret">>)

\* chromium.launch, browser.newContext, context.newPage, then the registration
Launch(p, outcome, cap) ==
    LET r == req[p]
        b == Len(browsers) + 1
    IN  /\ r.op = "login" /\ r.pc = "launch"
        /\ now < cap
        /\ now' = now + 1
        /\ IF outcome = "launchFail"
           THEN /\ req' = [req EXCEPT ![p] = Throw(r, <<"launch failed">>)]
                /\ UNCHANGED <<browsers, page, activeSessions>>
           ELSE /\ browsers' = Append(browsers, "open")
                /\ page' = Append(page, "blank")
                /\ IF outcome = "pageFail"
                   THEN /\ req' = [req EXCEPT ![p] =
                                 Throw([r EXCEPT !.browser = b], <<"newPage failed">>)]
                        /\ UNCHANGED activeSessions
                   ELSE /\ activeSessions' = Register(activeSessions, r.sid,
                                 [browser |-> b, context |-> b,
                                  email |-> r.email, password |-> r.password,
                                  cacheDir |-> <<>>, version |-> r.version,
                                  createdAt |-> now, quickLogin |-> FALSE])
                        /\ req' = [req EXCEPT ![p] = [r EXCEPT !.browser = b, !.pc = "goto"]]
        /\ UNCHANGED <<pending2FASessions, cookieFiles, sessionFiles, cacheDirs>>

\* page.goto(facebookUrl): the site answers with its login page, or goto rejects
Goto(p, loaded) ==
    LET r == req[p]
    IN  /\ r.op = "login" /\ r.pc = "goto"
        /\ IF IsOpen(r.browser) /\ loaded
           THEN /\ page' = [page EXCEPT ![r.browser] = "login"]
                /\ req' = [req EXCEPT ![p] = [r EXCEPT !.pc = "fillEmail"]]
           ELSE /\ req' = [req EXCEPT ![p] = Throw(r, <<"goto failed">>)]
                /\ UNCHANGED page
        /\ UNCHANGED <<activeSessions, pending2FASessions, browsers,
                       cookieFiles, sessionFiles, cacheDirs, now>>

\* a variant that goes on to the password when the email field was not found
FillEmail_GoesOn(p, visible) ==
    LET r == req[p]
    IN  /\ r.op = "login" /\ r.pc = "fillEmail"
        /\ req' = [req EXCEPT ![p] = [r EXCEPT !.pc = "fillPassword"]]
        /\ UNCHANGED <<activeSessions, pending2FASessions, browsers, page,
                       cookieFiles, sessionFiles, cacheDirs, now>>

\* findElement(selectors.email) and typeOptimized(email)
FillEmail(p, visible) ==
    LET r == req[p]
    IN  /\ r.op = "login" /\ r.pc = "fillEmail"
        /\ req' = [req EXCEPT ![p] =
              IF findElement(r.browser, visible) THEN [r EXCEPT !.pc = "fillPassword"]
              ELSE Throw(r, <<"No se pudo encontrar el campo de email">>)]
        /\ UNCHANGED <<activeSessions, pending2FASessions, browsers, page,
                       cookieFiles, sessionFiles, cacheDirs, now>>

\* findElement(selectors.password) and typeOptimized(password)
FillPassword(p, visible) ==
    LET r == req[p]
    IN  /\ r.op = "login" /\ r.pc = "fillPassword"
        /\ req' = [req EXCEPT ![p] =
              IF findElement(r.browser, visible) THEN [r EXCEPT !.pc = "waitButton"]
              ELSE Throw(r, <<"No se pudo encontrar el campo de contrasena">>)]
        /\ UNCHANGED <<activeSessions, pending2FASessions, browsers, page,
                       cookieFiles, sessionFiles, cacheDirs, now>>

\* what the login control of the form looks like while waitForLoginButton
\* polls: without a spinner at some poll, with a spinner at every poll, or absent
Controls == {"ready", "busy", "none"}

\* waitForLoginButton: the control that a poll finds without a spinner; when
\* the budget is spent, findElement(selectors.loginButton), whose list also
\* holds the selectors that match a control with a spinner
waitForLoginButton(b, control) ==
    IF findElement(b, control = "ready") THEN "ready"
    ELSE IF findElement(b, control = "busy") THEN "busy"
    ELSE "none"

\* waitForLoginButton(page, 15000), and the throw when it returns null
WaitButton(p, control) ==
    LET r == req[p]
        loginButton == waitForLoginButton(r.browser, control)
    IN  /\ r.op = "login" /\ r.pc = "waitButton"
        /\ req' = [req EXCEPT ![p] =
              IF loginButton # "none"
              THEN [r EXCEPT !.pc = "click",
                             !.seen = IF loginButton = "busy" THEN "busy" ELSE "none"]
              ELSE Throw(r, <<"No se pudo encontrar el boton de login">>)]
        /\ UNCHANGED <<activeSessions, pending2FASessions, browsers, page,
                       cookieFiles, sessionFiles, cacheDirs, now>>

\* loginButton.click({force: true}); the site answers with some page
Click(p, shown) ==
    LET r == req[p]
    IN  /\ r.op = "login" /\ r.pc = "click"
        /\ IF IsOpen(r.browser)
           THEN /\ page' = [page EXCEPT ![r.browser] = shown]
                /\ req' = [req EXCEPT ![p] = [r EXCEPT !.pc = "check1", !.seen = "none"]]
           ELSE /\ req' = [req EXCEPT ![p] =
                       Throw([r EXCEPT !.seen = "none"], <<"click failed">>)]
                /\ UNCHANGED page
        /\ UNCHANGED <<activeSessions, pending2FASessions, browsers,
                       cookieFiles, sessionFiles, cacheDirs, now>>

\* a second-factor page that was still loading has rendered
Render(b) ==
    /\ b \in 1..Len(browsers)
    /\ IsOpen(b) /\ page[b] = "late2fa"
    /\ page' = [page EXCEPT ![b] = "twofa"]
    /\ UNCHANGED <<activeSessions, pending2FASessions, browsers,
                   cookieFiles, sessionFiles, cacheDirs, now, req>>

\* a variant with one checkFor2FA call: a negative result goes to the success check
Check2FA_Single(p) ==
    LET r == req[p]
    IN  /\ r.op = "login" /\ r.pc \in {"check1", "check2", "check3"}
        /\ req' = [req EXCEPT ![p] =
              IF checkFor2FA(r.browser) THEN [r EXCEPT !.pc = "snap2fa"]
              ELSE [r EXCEPT !.pc = "checkSuccess"]]
        /\ UNCHANGED <<activeSessions, pending2FASessions, browsers, page,
                       cookieFiles, sessionFiles, cacheDirs, now>>

\* the three checkFor2FA calls after the click (at once, +1 s, +2 s)
Check2FA(p) ==
    LET r == req[p]
    IN  /\ r.op = "login" /\ r.pc \in {"check1", "check2", "check3"}
        /\ req' = [req EXCEPT ![p] =
              IF checkFor2FA(r.browser) THEN [r EXCEPT !.pc = "snap2fa"]
              ELSE [r EXCEPT !.pc = CASE r.pc = "check1" -> "check2"
                                      [] r.pc = "check2" -> "check3"
                                      [] OTHER -> "checkSuccess"]]
        /\ UNCHANGED <<activeSessions, pending2FASessions, browsers, page,
                       cookieFiles, sessionFiles, cacheDirs, now>>

\* after the 2fa-detected snapshot: pending2FASessions.set and the signal throw
Suspend(p) ==
    LET r == req[p]
    IN  /\ r.op = "login" /\ r.pc = "snap2fa"
        /\ pending2FASessions' = PendingSet(pending2FASessions, r.sid,
              [sid |-> r.sid, browser |-> r.browser, email |-> r.email,
               version |-> r.version, timestamp |-> now])
        /\ req' = [req EXCEPT ![p] =
              Throw([r EXCEPT !.seen = "2fa"], SignalMessage(r.sid, r.version))]
        /\ UNCHANGED <<activeSessions, browsers, page,
                       cookieFiles, sessionFiles, cacheDirs, now>>

\* checkLoginSuccess after three negative second-factor checks
CheckSuccess(p) ==
    LET r == req[p]
    IN  /\ r.op = "login" /\ r.pc = "checkSuccess"
        /\ req' = [req EXCEPT ![p] =
              IF checkLoginSuccess(r.browser) THEN [r EXCEPT !.pc = "save"]
              ELSE Throw(r, <<"El login no fue exitoso">>)]
        /\ UNCHANGED <<activeSessions, pending2FASessions, browsers, page,
                       cookieFiles, sessionFiles, cacheDirs, now>>

\* saveCookies, saveSessionState, the cache directory, the success return
SaveAndReturn(p, wrote) ==
    LET r == req[p]
    IN  /\ r.op = "login" /\ r.pc = "save"
        /\ wrote \in SaveOutcomes(r.browser)
        /\ SaveArtifacts(wrote, r.email, r.sid)
        /\ cacheDirs' = cacheDirs \cup {CacheDirName(r.email, r.version)}
        /\ req' = [req EXCEPT ![p] =
              AttemptReturned(r, AttemptSuccess(r.version, r.sid), now)]
        /\ UNCHANGED <<activeSessions, pending2FASessions, browsers, page, now>>

\* the catch block of attemptLoginWithVersion
Catch(p, closing) ==
    LET r == req[p]
    IN  /\ r.op = "login" /\ r.pc = "catch"
        /\ IF Is2FASignal(r.err)
           THEN /\ req' = [req EXCEPT ![p] =
                       AttemptThrew(r, r.err, pending2FASessions, now)]
                /\ UNCHANGED <<activeSessions, browsers, page>>
           ELSE IF r.sid \notin DOMAIN activeSessions
           THEN /\ req' = [req EXCEPT ![p] =
                       AttemptReturned(r, AttemptFailure(r.version, r.err), now)]
                /\ UNCHANGED <<activeSessions, browsers, page>>
           ELSE IF closing = "ok"
           THEN /\ browsers' = [browsers EXCEPT ![activeSessions[r.sid].browser] = "closed"]
                /\ page' = [page EXCEPT ![activeSessions[r.sid].browser] = ClosedPage(@)]
                /\ activeSessions' = Unregister(activeSessions, r.sid)
                /\ req' = [req EXCEPT ![p] =
                       AttemptReturned(r, AttemptFailure(r.version, r.err), now)]
           ELSE \* browser.close() rejected: the delete is skipped
                /\ req' = [req EXCEPT ![p] =
                       AttemptThrew(r, <<"close failed">>, pending2FASessions, now)]
                /\ UNCHANGED <<activeSessions, browsers, page>>
        /\ UNCHANGED <<pending2FASessions, cookieFiles, sessionFiles, cacheDirs, now>>

\* the response has been sent: the request is over
Respond(p) ==
    /\ req[p].pc = "done"
    /\ req' = [req EXCEPT ![p] = IdleReq]
    /\ UNCHANGED <<activeSessions, pending2FASessions, browsers, page,
                   cookieFiles, sessionFiles, cacheDirs, now>>

-----------------------------------------------------------------------------
(* POST /submit-2fa *)

\* session ids a caller may send: the registered ones, the pending ones, and
\* one that names no session
UnknownIds == { <<"u">> }

TargetIds == DOMAIN activeSessions \cup PendingIds(pending2FASessions) \cup UnknownIds

NotFound2FA == [NoResult EXCEPT !.status = 404, !.error = <<"Sesion no encontrada">>]

\* res.json({success: false, message, stillRequires2FA: true})
Still2FA(msg) ==
    [NoResult EXCEPT !.status = 200, !.stillRequires2FA = TRUE, !.error = msg]

\* the inner catch: "Mantener la sesion pendiente para otro intento"
InnerCatch(r, msg) == Done(r, Still2FA(<<"Error procesando 2FA: ">> \o msg))

\* a variant of StartSubmit that looks the session up in activeSessions
StartSubmit_ChecksRegistry(p, sid) ==
    /\ req[p].op = "idle"
    /\ sid \in TargetIds
    /\ req' = [req EXCEPT ![p] =
          IF sid \notin DOMAIN activeSessions
          THEN Done([IdleReq EXCEPT !.op = "submit", !.sid = sid], NotFound2FA)
          ELSE LET d == activeSessions[sid]
               IN  [IdleReq EXCEPT !.op = "submit", !.pc = "findInput", !.sid = sid,
                                   !.email = d.email, !.version = d.version,
                                   !.browser = d.browser]]
    /\ UNCHANGED <<activeSessions, pending2FASessions, browsers, page,
                   cookieFiles, sessionFiles, cacheDirs, now>>

\* the request arrives: pending2FASessions.has, then pending2FASessions.get
StartSubmit(p, sid) ==
    /\ req[p].op = "idle"
    /\ sid \in TargetIds
    /\ req' = [req EXCEPT ![p] =
          IF ~ PendingHas(pending2FASessions, sid)
          THEN Done([IdleReq EXCEPT !.op = "submit", !.sid = sid], NotFound2FA)
          ELSE LET d == PendingGet(pending2FASessions, sid)
               IN  [IdleReq EXCEPT !.op = "submit", !.pc = "findInput", !.sid = sid,
                                   !.email = d.email, !.version = d.version,
                                   !.browser = d.browser]]
    /\ UNCHANGED <<activeSessions, pending2FASessions, browsers, page,
                   cookieFiles, sessionFiles, cacheDirs, now>>

\* a variant of FindInput that tears the session down when the field is missing
FindInput_TearsDown(p, found) ==
    LET r == req[p]
    IN  /\ r.op = "submit" /\ r.pc = "findInput"
        /\ IF IsOpen(r.browser) /\ found
           THEN /\ req' = [req EXCEPT ![p] = [r EXCEPT !.pc = "findButton"]]
                /\ UNCHANGED <<activeSessions, pending2FASessions, browsers, page>>
           ELSE /\ req' = [req EXCEPT ![p] =
                       InnerCatch([r EXCEPT !.seen = "noField"],
                                  <<"No se pudo encontrar el campo de codigo 2FA">>)]
                /\ pending2FASessions' = PendingDelete(pending2FASessions, r.sid)
                /\ activeSessions' = Unregister(activeSessions, r.sid)
                /\ browsers' = [browsers EXCEPT ![r.browser] = "closed"]
                /\ page' = [page EXCEPT ![r.browser] = ClosedPage(@)]
        /\ UNCHANGED <<cookieFiles, sessionFiles, cacheDirs, now>>

\* the probing for the code field, then click, fill and type of the code
FindInput(p, found) ==
    LET r == req[p]
    IN  /\ r.op = "submit" /\ r.pc = "findInput"
        /\ req' = [req EXCEPT ![p] =
              IF IsOpen(r.browser) /\ found THEN [r EXCEPT !.pc = "findButton"]
              ELSE InnerCatch([r EXCEPT !.seen = "noField"],
                              <<"No se pudo encontrar el campo de codigo 2FA">>)]
        /\ UNCHANGED <<activeSessions, pending2FASessions, browsers, page,
                       cookieFiles, sessionFiles, cacheDirs, now>>

\* the probing for the submit control, then its click; the site answers
FindButton(p, found, shown) ==
    LET r == req[p]
    IN  /\ r.op = "submit" /\ r.pc = "findButton"
        /\ IF IsOpen(r.browser) /\ found
           THEN /\ page' = [page EXCEPT ![r.browser] = shown]
                /\ req' = [req EXCEPT ![p] = [r EXCEPT !.pc = "verify2FA"]]
           ELSE /\ req' = [req EXCEPT ![p] =
                       InnerCatch([r EXCEPT !.seen = "noButton"],
                                  <<"No se pudo encontrar el boton de envio 2FA">>)]
                /\ UNCHANGED page
        /\ UNCHANGED <<activeSessions, pending2FASessions, browsers,
                       cookieFiles, sessionFiles, cacheDirs, now>>

\* a variant of Verify2FA that drops the Pending record after a wrong code
Verify2FA_DropsPending(p) ==
    LET r == req[p]
    IN  /\ r.op = "submit" /\ r.pc = "verify2FA"
        /\ IF checkFor2FA(r.browser)
           THEN /\ req' = [req EXCEPT ![p] =
                       Done([r EXCEPT !.seen = "wrong"],
                            Still2FA(<<"Codigo 2FA incorrecto. Intenta nuevamente.">>))]
                /\ pending2FASessions' = PendingDelete(pending2FASessions, r.sid)
           ELSE /\ req' = [req EXCEPT ![p] = [r EXCEPT !.pc = "verifySuccess"]]
                /\ UNCHANGED pending2FASessions
        /\ UNCHANGED <<activeSessions, browsers, page,
                       cookieFiles, sessionFiles, cacheDirs, now>>

\* if (await checkFor2FA(page)): the code was wrong
Verify2FA(p) ==
    LET r == req[p]
    IN  /\ r.op = "submit" /\ r.pc = "verify2FA"
        /\ req' = [req EXCEPT ![p] =
              IF checkFor2FA(r.browser)
              THEN Done([r EXCEPT !.seen = "wrong"],
                        Still2FA(<<"Codigo 2FA incorrecto. Intenta nuevamente.">>))
              ELSE [r EXCEPT !.pc = "verifySuccess"]]
        /\ UNCHANGED <<activeSessions, pending2FASessions, browsers, page,
                       cookieFiles, sessionFiles, cacheDirs, now>>

\* the success branch after the artifacts were saved (or skipped):
\* pending2FASessions.delete, then resolve(...), which is null
Resolve2FA(r) ==
    InnerCatch([r EXCEPT !.seen = "accepted"], <<"resolve is not a function">>)

\* if (await checkLoginSuccess(page)) ... else throw
VerifySuccess(p) ==
    LET r == req[p]
    IN  /\ r.op = "submit" /\ r.pc = "verifySuccess"
        /\ IF ~ checkLoginSuccess(r.browser)
           THEN /\ req' = [req EXCEPT ![p] =
                       InnerCatch([r EXCEPT !.seen = "neither"],
                                  <<"Login no exitoso despues de 2FA">>)]
                /\ UNCHANGED pending2FASessions
           ELSE IF r.sid \in DOMAIN activeSessions
           THEN /\ req' = [req EXCEPT ![p] =
                       [r EXCEPT !.pc = "save2FA", !.seen = "accepted",
                                 !.browser = activeSessions[r.sid].browser]]
                /\ UNCHANGED pending2FASessions
           ELSE /\ pending2FASessions' = PendingDelete(pending2FASessions, r.sid)
                /\ req' = [req EXCEPT ![p] = Resolve2FA(r)]
        /\ UNCHANGED <<activeSessions, browsers, page,
                       cookieFiles, sessionFiles, cacheDirs, now>>

\* saveCookies and saveSessionState of the session, then the rest of the branch
Save2FA(p, wrote) ==
    LET r == req[p]
    IN  /\ r.op = "submit" /\ r.pc = "save2FA"
        /\ wrote \in SaveOutcomes(r.browser)
        /\ SaveArtifacts(wrote, r.email, r.sid)
        /\ pending2FASessions' = PendingDelete(pending2FASessions, r.sid)
        /\ req' = [req EXCEPT ![p] = Resolve2FA(r)]
        /\ UNCHANGED <<activeSessions, browsers, page, cacheDirs, now>>

-----------------------------------------------------------------------------
(* closeSession, POST /close-session, POST /cancel-2fa *)

Closed200 == [NoResult EXCEPT !.status = 200, !.success = TRUE]

CloseNotFound == [NoResult EXCEPT !.status = 404, !.error = <<"Sesion no encontrada">>]

CloseError ==
    [NoResult EXCEPT !.status = 404, !.error = <<"Error cerrando sesion: ", "close failed">>]

\* POST /cancel-2fa answers success whatever closeSession returned
AfterClose(r, res) == IF r.op = "cancel" THEN Done(r, Closed200) ELSE Done(r, res)

\* closeSession up to its first await: req.browser is session.context, the
\* object the state is saved from, req.handle tells whether session.browser is set
BeginClose(r) ==
    IF r.sid \notin DOMAIN activeSessions THEN AfterClose(r, CloseNotFound)
    ELSE [r EXCEPT !.pc = "closeSave", !.browser = activeSessions[r.sid].context,
                   !.handle = (activeSessions[r.sid].browser # NoBrowser),
                   !.email = activeSessions[r.sid].email]

StartClose(p, sid) ==
    /\ req[p].op = "idle"
    /\ sid \in TargetIds
    /\ req' = [req EXCEPT ![p] = BeginClose([IdleReq EXCEPT !.op = "close", !.sid = sid])]
    /\ UNCHANGED <<activeSessions, pending2FASessions, browsers, page,
                   cookieFiles, sessionFiles, cacheDirs, now>>

\* the request arrives; with a Pending record: get, delete, sessionData.reject(...),
\* which is null, so the outer catch answers 500 and closeSession is not reached
StartCancel(p, sid) ==
    /\ req[p].op = "idle"
    /\ sid \in TargetIds
    /\ IF PendingHas(pending2FASessions, sid)
       THEN /\ pending2FASessions' = PendingDelete(pending2FASessions, sid)
            /\ req' = [req EXCEPT ![p] =
                  Done([IdleReq EXCEPT !.op = "cancel", !.sid = sid, !.seen = "pending",
                          !.browser = PendingGet(pending2FASessions, sid).browser],
                       [NoResult EXCEPT !.status = 500,
                          !.error = <<"Error del servidor: ",
                                      "sessionData.reject is not a function">>])]
       ELSE /\ req' = [req EXCEPT ![p] =
                  BeginClose([IdleReq EXCEPT !.op = "cancel", !.sid = sid])]
            /\ UNCHANGED pending2FASessions
    /\ UNCHANGED <<activeSessions, browsers, page,
                   cookieFiles, sessionFiles, cacheDirs, now>>

\* closeSession: saveCookies and saveSessionState before closing
CloseSave(p, wrote) ==
    LET r == req[p]
    IN  /\ r.op \in {"close", "cancel"} /\ r.pc = "closeSave"
        /\ wrote \in SaveOutcomes(r.browser)
        /\ SaveArtifacts(wrote, r.email, r.sid)
        /\ req' = [req EXCEPT ![p] = [r EXCEPT !.pc = "closeBrowser"]]
        /\ UNCHANGED <<activeSessions, pending2FASessions, browsers, page, cacheDirs, now>>

\* closeSession: if (session.browser) session.browser.close(), then delete
\* activeSessions[sessionId]
CloseBrowser(p, closing) ==
    LET r == req[p]
    IN  /\ r.op \in {"close", "cancel"} /\ r.pc = "closeBrowser"
        /\ closing = "throw" => r.handle
        /\ IF closing = "ok"
           THEN /\ IF r.handle
                   THEN /\ browsers' = [browsers EXCEPT ![r.browser] = "closed"]
                        /\ page' = [page EXCEPT ![r.browser] = ClosedPage(@)]
                   ELSE UNCHANGED <<browsers, page>>
                /\ activeSessions' = Unregister(activeSessions, r.sid)
                /\ req' = [req EXCEPT ![p] = AfterClose(r, Closed200)]
           ELSE /\ req' = [req EXCEPT ![p] = AfterClose(r, CloseError)]
                /\ UNCHANGED <<activeSessions, browsers, page>>
        /\ UNCHANGED <<pending2FASessions, cookieFiles, sessionFiles, cacheDirs, now>>

-----------------------------------------------------------------------------
(* POST /quick-login -> performQuickLogin -> attemptLoginWithVersion(quick) *)

\* the NO_COOKIES return of attemptLoginWithVersion
NoCookies(email, version) ==
    [NoResult EXCEPT !.status = 401, !.version = <<version>>,
                     !.error = <<"NO_COOKIES">>,
                     !.message = <<"No hay cookies guardadas para ">> \o email]

\* the QUICK_LOGIN_FAILED return of attemptLoginWithVersion
QuickLoginFailed(email, version) ==
    [NoResult EXCEPT !.status = 401, !.version = <<version>>,
                     !.error = <<"QUICK_LOGIN_FAILED">>,
                     !.message = <<"Quick login ", version, " fallo para ">> \o email]

\* the failure return of the catch of attemptLoginWithVersion
QuickCaught(version, msg) ==
    [AttemptFailure(version, msg) EXCEPT !.message = <<"Error ", version, ": ">> \o msg]

\* a variant of QuickBoth that never returns the mobile NO_COOKIES result
QuickBoth_AlwaysCombined(r, res) ==
    Done(r, [NoResult EXCEPT !.status = 401,
                             !.error = <<"BOTH_VERSIONS_FAILED">>,
                             !.message = <<"Quick login fallo en ambas versiones">>,
                             !.attempts = <<r.first.message, res.message>>])

\* performQuickLogin, auto: both attempts returned without success
QuickBoth(r, res) ==
    IF r.first.error = <<"NO_COOKIES">> THEN Done(r, r.first)
    ELSE Done(r, [NoResult EXCEPT !.status = 401,
                                  !.error = <<"BOTH_VERSIONS_FAILED">>,
                                  !.message = <<"Quick login fallo en ambas versiones">>,
                                  !.attempts = <<r.first.message, res.message>>])

\* performQuickLogin, auto: the desktop attempt begins after mobile returned res
QuickDesktop(r, res, files, t) ==
    LET d == [r EXCEPT !.version = "desktop",
                       !.sid = SessionIdOf(TRUE, r.email, "desktop", t),
                       !.browser = NoBrowser, !.err = <<>>, !.seen = "none",
                       !.mobile = [sid |-> r.sid, browser |-> r.browser],
                       !.handle = TRUE, !.first = res]
    IN  IF ~ loadCookies(files, d.email, t) THEN QuickBoth(d, NoCookies(d.email, "desktop"))
        ELSE [d EXCEPT !.pc = "quickLaunch"]

\* attemptLoginWithVersion(quick) returned res to performQuickLogin
QuickReturned(r, res, files, t) ==
    IF r.choice # "auto" \/ res.success THEN Done(r, res)
    ELSE IF r.version = "mobile" THEN QuickDesktop(r, res, files, t)
    ELSE QuickBoth(r, res)

\* a variant of the arrival that unlinks a cookie file it finds expired
StartQuick_DropsExpired(p, email, choice) ==
    /\ req[p].op = "idle"
    /\ LET v == IF choice = "desktop" THEN "desktop" ELSE "mobile"
           r == [IdleReq EXCEPT !.op = "quick", !.email = email, !.choice = choice,
                                !.version = v, !.sid = SessionIdOf(TRUE, email, v, now)]
       IN  req' = [req EXCEPT ![p] =
                 IF ~ loadCookies(cookieFiles, email, now)
                 THEN QuickReturned(r, NoCookies(email, v), cookieFiles, now)
                 ELSE [r EXCEPT !.pc = "quickLaunch"]]
    /\ cookieFiles' =
          IF CookieFileName(email) \in DOMAIN cookieFiles
               /\ ~ loadCookies(cookieFiles, email, now)
          THEN [n \in DOMAIN cookieFiles \ {CookieFileName(email)} |-> cookieFiles[n]]
          ELSE cookieFiles
    /\ UNCHANGED <<activeSessions, pending2FASessions, browsers, page,
                   sessionFiles, cacheDirs, now>>

\* the request arrives; without a usable bundle the attempt returns NO_COOKIES
\* before anything is launched
StartQuick(p, email, choice) ==
    /\ req[p].op = "idle"
    /\ LET v == IF choice = "desktop" THEN "desktop" ELSE "mobile"
           r == [IdleReq EXCEPT !.op = "quick", !.email = email, !.choice = choice,
                                !.version = v, !.sid = SessionIdOf(TRUE, email, v, now)]
       IN  req' = [req EXCEPT ![p] =
                 IF ~ loadCookies(cookieFiles, email, now)
                 THEN QuickReturned(r, NoCookies(email, v), cookieFiles, now)
                 ELSE [r EXCEPT !.pc = "quickLaunch"]]
    /\ UNCHANGED <<activeSessions, pending2FASessions, browsers, page,
                   cookieFiles, sessionFiles, cacheDirs, now>>

\* createPersistentContext (mkdir of the cache directory, launchPersistentContext,
\* context.browser(), which is null in the library versions that give a persistent
\* context no browser object), context.newPage, then the registration
QuickLaunch(p, outcome, handle, cap) ==
    LET r == req[p]
        b == Len(browsers) + 1
    IN  /\ r.op = "quick" /\ r.pc = "quickLaunch"
        /\ now < cap
        /\ now' = now + 1
        /\ cacheDirs' = cacheDirs \cup {CacheDirName(r.email, r.version)}
        /\ IF outcome = "launchFail"
           THEN /\ req' = [req EXCEPT ![p] = Throw(r, <<"launch failed">>)]
                /\ UNCHANGED <<browsers, page, activeSessions>>
           ELSE /\ browsers' = Append(browsers, "open")
                /\ page' = Append(page, "blank")
                /\ IF outcome = "pageFail"
                   THEN /\ req' = [req EXCEPT ![p] =
                                 Throw([r EXCEPT !.browser = b, !.handle = handle],
                                       <<"newPage failed">>)]
                        /\ UNCHANGED activeSessions
                   ELSE /\ activeSessions' = Register(activeSessions, r.sid,
                                 [browser |-> IF handle THEN b ELSE NoBrowser,
                                  context |-> b,
                                  email |-> r.email, password |-> <<>>,
                                  cacheDir |-> CacheDirName(r.email, r.version),
                                  version |-> r.version,
                                  createdAt |-> now, quickLogin |-> TRUE])
                        /\ req' = [req EXCEPT ![p] =
                                 [r EXCEPT !.browser = b, !.handle = handle,
                                           !.pc = "quickGoto"]]
        /\ UNCHANGED <<pending2FASessions, cookieFiles, sessionFiles>>

\* page.goto with the restored cookies: the site shows some page, or goto
\* rejects and the inner catch falls through to the quick failure
QuickGoto(p, shown) ==
    LET r == req[p]
    IN  /\ r.op = "quick" /\ r.pc = "quickGoto"
        /\ IF IsOpen(r.browser) /\ shown \in AfterSubmitPages
           THEN /\ page' = [page EXCEPT ![r.browser] = shown]
                /\ req' = [req EXCEPT ![p] = [r EXCEPT !.pc = "quickCheck"]]
           ELSE /\ req' = [req EXCEPT ![p] =
                       [r EXCEPT !.pc = "quickFail", !.seen = "notSuccess"]]
                /\ UNCHANGED page
        /\ UNCHANGED <<activeSessions, pending2FASessions, browsers,
                       cookieFiles, sessionFiles, cacheDirs, now>>

\* restoreSessionState, handleSaveLoginDialog, then checkLoginSuccess
QuickCheck(p) ==
    LET r == req[p]
    IN  /\ r.op = "quick" /\ r.pc = "quickCheck"
        /\ req' = [req EXCEPT ![p] =
              IF checkLoginSuccess(r.browser) THEN [r EXCEPT !.pc = "quickSave"]
              ELSE [r EXCEPT !.pc = "quickFail", !.seen = "notSuccess"]]
        /\ UNCHANGED <<activeSessions, pending2FASessions, browsers, page,
                       cookieFiles, sessionFiles, cacheDirs, now>>

\* saveCookies, saveSessionState, the success return
QuickSave(p, wrote) ==
    LET r == req[p]
    IN  /\ r.op = "quick" /\ r.pc = "quickSave"
        /\ wrote \in SaveOutcomes(r.browser)
        /\ SaveArtifacts(wrote, r.email, r.sid)
        /\ req' = [req EXCEPT ![p] =
              QuickReturned(r, AttemptSuccess(r.version, r.sid), cookieFiles, now)]
        /\ UNCHANGED <<activeSessions, pending2FASessions, browsers, page,
                       cacheDirs, now>>

\* a variant of QuickFail that saves the artifacts before it closes the browser
QuickFail_SavesFirst(p, closing) ==
    LET r == req[p]
    IN  /\ r.op = "quick" /\ r.pc = "quickFail"
        /\ SaveArtifacts("both", r.email, r.sid)
        /\ IF ~ r.handle
           THEN /\ req' = [req EXCEPT ![p] =
                       Throw(r, <<"Cannot read properties of null (reading 'close')">>)]
                /\ UNCHANGED <<activeSessions, browsers, page>>
           ELSE IF closing = "ok"
           THEN /\ browsers' = [browsers EXCEPT ![r.browser] = "closed"]
                /\ page' = [page EXCEPT ![r.browser] = ClosedPage(@)]
                /\ activeSessions' = Unregister(activeSessions, r.sid)
                /\ req' = [req EXCEPT ![p] =
                       QuickReturned(r, QuickLoginFailed(r.email, r.version),
                                     cookieFiles, now)]
           ELSE /\ req' = [req EXCEPT ![p] = Throw(r, <<"close failed">>)]
                /\ UNCHANGED <<activeSessions, browsers, page>>
        /\ UNCHANGED <<pending2FASessions, cacheDirs, now>>

\* if (quickLogin) { await browser.close(); delete activeSessions[sessionId]; ... }
QuickFail(p, closing) ==
    LET r == req[p]
    IN  /\ r.op = "quick" /\ r.pc = "quickFail"
        /\ IF ~ r.handle
           THEN /\ req' = [req EXCEPT ![p] =
                       Throw(r, <<"Cannot read properties of null (reading 'close')">>)]
                /\ UNCHANGED <<activeSessions, browsers, page>>
           ELSE IF closing = "ok"
           THEN /\ browsers' = [browsers EXCEPT ![r.browser] = "closed"]
                /\ page' = [page EXCEPT ![r.browser] = ClosedPage(@)]
                /\ activeSessions' = Unregister(activeSessions, r.sid)
                /\ req' = [req EXCEPT ![p] =
                       QuickReturned(r, QuickLoginFailed(r.email, r.version),
                                     cookieFiles, now)]
           ELSE /\ req' = [req EXCEPT ![p] = Throw(r, <<"close failed">>)]
                /\ UNCHANGED <<activeSessions, browsers, page>>
        /\ UNCHANGED <<pending2FASessions, cookieFiles, sessionFiles, cacheDirs, now>>

\* the catch block of attemptLoginWithVersion, reached from a quick attempt;
\* performQuickLogin does not catch, so a second rejection reaches the route
QuickCatch(p, closing) ==
    LET r == req[p]
        failed == QuickReturned(r, QuickCaught(r.version, r.err), cookieFiles, now)
    IN  /\ r.op = "quick" /\ r.pc = "catch"
        /\ IF r.sid \notin DOMAIN activeSessions
           THEN /\ req' = [req EXCEPT ![p] = failed]
                /\ UNCHANGED <<activeSessions, browsers, page>>
           ELSE IF activeSessions[r.sid].browser = NoBrowser
           THEN /\ activeSessions' = Unregister(activeSessions, r.sid)
                /\ req' = [req EXCEPT ![p] = failed]
                /\ UNCHANGED <<browsers, page>>
           ELSE IF closing = "ok"
           THEN /\ browsers' = [browsers EXCEPT ![activeSessions[r.sid].browser] = "closed"]
                /\ page' = [page EXCEPT ![activeSessions[r.sid].browser] = ClosedPage(@)]
                /\ activeSessions' = Unregister(activeSessions, r.sid)
                /\ req' = [req EXCEPT ![p] = failed]
           ELSE /\ req' = [req EXCEPT ![p] = Done(r, ServerError(<<"close failed">>))]
                /\ UNCHANGED <<activeSessions, browsers, page>>
        /\ UNCHANGED <<pending2FASessions, cookieFiles, sessionFiles, cacheDirs, now>>

-----------------------------------------------------------------------------
(* POST /clean-cookies, GET /cookies, DELETE /cookies/:email *)

\* a variant of cleanOldSessions that also unlinks the files whose age is maxAge
cleanOldSessions_AtAge(files, t) ==
    [n \in {m \in DOMAIN files : ~ (t - files[m].timestamp >= maxAge)} |-> files[n]]

\* the files that are left when those older than maxAge at time t are unlinked
cleanOldSessions(files, t) ==
    [n \in {m \in DOMAIN files : ~ (t - files[m].timestamp > maxAge)} |-> files[n]]

\* POST /clean-cookies: cleanOldSessions over COOKIES_DIR, which holds the
\* cookie files and the session files; the answer carries no count
CleanCookies(p) ==
    /\ req[p].op = "idle"
    /\ cookieFiles' = cleanOldSessions(cookieFiles, now)
    /\ sessionFiles' = cleanOldSessions(sessionFiles, now)
    /\ req' = [req EXCEPT ![p] =
          Done([IdleReq EXCEPT !.op = "clean",
                  !.seen = IF cookieFiles' # cookieFiles \/ sessionFiles' # sessionFiles
                           THEN "purged" ELSE "kept"],
               [NoResult EXCEPT !.status = 200, !.success = TRUE,
                                !.message = <<"Cookies antiguas limpiadas">>])]
    /\ UNCHANGED <<activeSessions, pending2FASessions, browsers, page, cacheDirs, now>>

\* file.replace(/_cookies\.json$|_session\.json$/, '')
KeyOf(name) == SubSeq(name, 1, Len(name) - 1)

\* emailKey.replace(/_/g, '@')
emailOfKey(key) == [i \in 1..Len(key) |-> IF key[i] = "_" THEN "@" ELSE key[i]]

\* data.cookies?.email || data.session?.email || emailKey.replace(/_/g, '@')
ListedEmail(key) ==
    IF key \o <<"_cookies.json">> \in DOMAIN cookieFiles
         /\ cookieFiles[key \o <<"_cookies.json">>].email # <<>>
    THEN cookieFiles[key \o <<"_cookies.json">>].email
    ELSE IF key \o <<"_session.json">> \in DOMAIN sessionFiles
              /\ sessionFiles[key \o <<"_session.json">>].email # <<>>
    THEN sessionFiles[key \o <<"_session.json">>].email
    ELSE emailOfKey(key)

\* GET /cookies: one entry per group of files
ListCookies(p) ==
    /\ req[p].op = "idle"
    /\ req' = [req EXCEPT ![p] =
          Done([IdleReq EXCEPT !.op = "list"],
               [NoResult EXCEPT !.status = 200,
                  !.accounts = { ListedEmail(KeyOf(n)) :
                                   n \in DOMAIN cookieFiles \cup DOMAIN sessionFiles }])]
    /\ UNCHANGED <<activeSessions, pending2FASessions, browsers, page,
                   cookieFiles, sessionFiles, cacheDirs, now>>

RemoveFile(files, name) == [n \in DOMAIN files \ {name} |-> files[n]]

\* DELETE /cookies/:email: the cookie file, the session file and the directory
\* path.join(CACHE_DIR, sanitized), each if it exists
DeleteCookies(p, email) ==
    LET cookieFile == CookieFileName(email)
        sessionFile == SessionFileName(email)
        cacheDir == Sanitize(email)
        deleted == (IF cookieFile \in DOMAIN cookieFiles THEN 1 ELSE 0)
                     + (IF sessionFile \in DOMAIN sessionFiles THEN 1 ELSE 0)
                     + (IF cacheDir \in cacheDirs THEN 1 ELSE 0)
    IN  /\ req[p].op = "idle"
        /\ cookieFiles' = RemoveFile(cookieFiles, cookieFile)
        /\ sessionFiles' = RemoveFile(sessionFiles, sessionFile)
        /\ cacheDirs' = cacheDirs \ {cacheDir}
        /\ req' = [req EXCEPT ![p] =
              Done([IdleReq EXCEPT !.op = "delete", !.email = email],
                   IF deleted > 0
                   THEN [NoResult EXCEPT !.status = 200, !.success = TRUE,
                                         !.filesDeleted = deleted]
                   ELSE [NoResult EXCEPT !.status = 404,
                           !.message = <<"No se encontraron datos para ">> \o email])]
        /\ UNCHANGED <<activeSessions, pending2FASessions, browsers, page, now>>

\* a millisecond passes
Tick(cap) ==
    /\ now < cap
    /\ now' = now + 1
    /\ UNCHANGED <<activeSessions, pending2FASessions, browsers, page,
                   cookieFiles, sessionFiles, cacheDirs, req>>

-----------------------------------------------------------------------------
(* detectFacebookVersion *)

\* url.includes(part): part is a run of consecutive tokens of url
Includes(url, part) ==
    \E i \in 1..(Len(url) - Len(part) + 1) : SubSeq(url, i, i + Len(part) - 1) = part

\* a variant that probes the marker elements before it looks at the URL
detectFacebookVersion_MarkersFirst(url, mobileIndicator, desktopIndicator) ==
    IF mobileIndicator = "visible" THEN "mobile"
    ELSE IF mobileIndicator = "hidden" /\ desktopIndicator = "visible" THEN "desktop"
    ELSE IF Includes(url, <<"m.", "facebook.com">>) THEN "mobile"
    ELSE IF Includes(url, <<"www.", "facebook.com">>) \/ Includes(url, <<"facebook.com">>)
    THEN "desktop"
    ELSE "mobile"

\* the URL decides first; then the marker elements, the mobile one first; a
\* probe that throws ends the try block; the default is mobile
detectFacebookVersion(url, mobileIndicator, desktopIndicator) ==
    IF Includes(url, <<"m.", "facebook.com">>) THEN "mobile"
    ELSE IF Includes(url, <<"www.", "facebook.com">>) \/ Includes(url, <<"facebook.com">>)
    THEN "desktop"
    ELSE IF mobileIndicator = "visible" THEN "mobile"
    ELSE IF mobileIndicator = "hidden" /\ desktopIndicator = "visible" THEN "desktop"
    ELSE "mobile"

\* URLs a page may have, as token sequences
Urls ==
    { <<"https://", "m.", "facebook.com", "/">>,
      <<"https://", "www.", "facebook.com", "/">>,
      <<"https://", "facebook.com", "/login">>,
      <<"https://", "l.", "facebook.com", "/?u=", "m.", "facebook.com">>,
      <<"about:blank">>,
      <<"https://", "example.org", "/">> }

\* what isVisible answers for a marker element, or that it throws
Probes == {"visible", "hidden", "throws"}

\* detectFacebookVersion(page) is called on the page that the browser shows,
\* and returns
Detect(p, url, mobileIndicator, desktopIndicator) ==
    /\ req[p].op = "idle"
    /\ browsers' = <<"open">>
    /\ page' = <<[url |-> url, mobileIndicator |-> mobileIndicator,
                  desktopIndicator |-> desktopIndicator]>>
    /\ req' = [req EXCEPT ![p] =
          Done([IdleReq EXCEPT !.op = "detect", !.browser = 1],
               [NoResult EXCEPT !.version =
                   <<detectFacebookVersion(url, mobileIndicator, desktopIndicator)>>])]
    /\ UNCHANGED <<activeSessions, pending2FASessions,
                   cookieFiles, sessionFiles, cacheDirs, now>>

-----------------------------------------------------------------------------

CloseOutcomes == {"ok", "throw"}

SaveResults == {"both", "cookies", "none"}

\* no request other than p's is being handled
Quiet(p) == \A q \in Procs \ {p} : req[q].op = "idle"

\* a request arrives; one at a time when oneAtATime
Arrive(p, ids, choices, oneAtATime) ==
    /\ oneAtATime => Quiet(p)
    /\ \/ \E e \in ids, c \in choices : StartLogin(p, e, c)
       \/ \E sid \in TargetIds : StartSubmit(p, sid)
       \/ \E sid \in TargetIds : StartClose(p, sid)
       \/ \E sid \in TargetIds : StartCancel(p, sid)

\* the next await point of a login request that is being handled
ContinueLogin(p, cap) ==
    \/ \E o \in {"ok", "launchFail", "pageFail"} : Launch(p, o, cap)
    \/ \E ok \in BOOLEAN : Goto(p, ok)
    \/ \E v \in BOOLEAN : FillEmail(p, v)
    \/ \E v \in BOOLEAN : FillPassword(p, v)
    \/ \E c \in Controls : WaitButton(p, c)
    \/ \E s \in AfterSubmitPages : Click(p, s)
    \/ Check2FA(p)
    \/ Suspend(p)
    \/ CheckSuccess(p)
    \/ \E w \in SaveResults : SaveAndReturn(p, w)
    \/ \E c \in CloseOutcomes : Catch(p, c)

\* the next await point of a submit-2fa, close-session or cancel-2fa request
ContinueOther(p) ==
    \/ \E f \in BOOLEAN : FindInput(p, f)
    \/ \E f \in BOOLEAN, s \in AfterSubmitPages : FindButton(p, f, s)
    \/ Verify2FA(p)
    \/ VerifySuccess(p)
    \/ \E w \in SaveResults : Save2FA(p, w)
    \/ \E w \in SaveResults : CloseSave(p, w)
    \/ \E c \in CloseOutcomes : CloseBrowser(p, c)

\* the next await point of a request that is being handled
Continue(p, cap) ==
    \/ ContinueLogin(p, cap)
    \/ ContinueOther(p)
    \/ Respond(p)

\* requests are handled one at a time, for every identity and dialect choice
Next ==
    \/ Arrive("p1", Identities, VersionChoices, TRUE)
    \/ \E p \in Procs : Continue(p, MaxTime)
    \/ \E b \in 1..MaxTime : Render(b)

Spec == Init /\ [][Next]_vars

\* requests interleave at their await points
NextConc ==
    \/ \E p \in Procs : Arrive(p, {MainIdentity}, {"mobile"}, FALSE)
    \/ \E p \in Procs : Continue(p, MaxConcTime)
    \/ \E b \in 1..MaxConcTime : Render(b)

SpecConc == Init /\ [][NextConc]_vars

\* the same, and a request that is being handled eventually reaches its next
\* await point; nothing obliges a client to send a request
SpecConcLive ==
    SpecConc /\ \A p \in Procs : WF_vars(Continue(p, MaxConcTime))

\* two logins of the same identity and dialect that may arrive within the
\* same millisecond
NextRace ==
    \/ \E p \in Procs : StartLogin(p, MainIdentity, "mobile")
    \/ \E p \in Procs : ContinueLogin(p, MaxRaceTime)
    \/ \E p \in Procs : Respond(p)
    \/ \E b \in 1..MaxRaceTime : Render(b)

SpecRace == Init /\ [][NextRace]_vars


\* the bundles that an earlier run of the server may have left on disk
StoredBundles ==
    {<<>>} \cup
    { WriteFile(<<>>, CookieFileName(MainIdentity),
                [email |-> MainIdentity, by |-> NoSid, timestamp |-> ts]) :
        ts \in 0..MaxStamp }

\* the server starts maxAge milliseconds after time 0, over a stored bundle
InitQuick ==
    /\ activeSessions = <<>>
    /\ pending2FASessions = <<>>
    /\ browsers = <<>>
    /\ page = <<>>
    /\ cookieFiles \in StoredBundles
    /\ sessionFiles \in {<<>>} \cup
          { WriteFile(<<>>, SessionFileName(MainIdentity), cookieFiles[n]) :
              n \in DOMAIN cookieFiles }
    /\ cacheDirs = {}
    /\ now = maxAge
    /\ req = [p \in Procs |-> IdleReq]

\* the next await point of a quick-login request that is being handled
ContinueQuick(p, cap) ==
    \/ \E o \in {"ok", "launchFail", "pageFail"}, h \in BOOLEAN : QuickLaunch(p, o, h, cap)
    \/ \E s \in AfterSubmitPages \cup {"reject"} : QuickGoto(p, s)
    \/ QuickCheck(p)
    \/ \E w \in SaveResults : QuickSave(p, w)
    \/ \E c \in CloseOutcomes : QuickFail(p, c)
    \/ \E c \in CloseOutcomes : QuickCatch(p, c)

\* quick logins, one at a time, for every identity and dialect choice
NextQuick ==
    \/ \E e \in Identities, c \in VersionChoices : Quiet("p1") /\ StartQuick("p1", e, c)
    \/ \E p \in Procs : ContinueQuick(p, maxAge + MaxQuickTime)
    \/ \E p \in Procs : Respond(p)

SpecQuick == InitQuick /\ [][NextQuick]_vars

\* quick logins and close-session requests, one at a time
NextQuickClose ==
    \/ \E c \in VersionChoices : Quiet("p1") /\ StartQuick("p1", MainIdentity, c)
    \/ \E sid \in TargetIds : Quiet("p1") /\ StartClose("p1", sid)
    \/ \E p \in Procs : ContinueQuick(p, maxAge + MaxQuickCloseTime)
    \/ \E p \in Procs, w \in SaveResults : CloseSave(p, w)
    \/ \E p \in Procs, c \in CloseOutcomes : CloseBrowser(p, c)
    \/ \E p \in Procs : Respond(p)

SpecQuickClose == InitQuick /\ [][NextQuickClose]_vars

\* identities a caller may name whose files have the same names
StoreIdentities == {MainIdentity, <<"u", ".", "x">>}

\* quick logins and the routes of the artifact store, one request at a time
NextStore ==
    \/ \E e \in StoreIdentities : Quiet("p1") /\ StartQuick("p1", e, "mobile")
    \/ \E e \in StoreIdentities : Quiet("p1") /\ DeleteCookies("p1", e)
    \/ Quiet("p1") /\ CleanCookies("p1")
    \/ Quiet("p1") /\ ListCookies("p1")
    \/ \E p \in Procs : ContinueQuick(p, maxAge + MaxStoreTime)
    \/ \E p \in Procs : Respond(p)
    \/ Tick(maxAge + MaxStoreTime)

SpecStore == InitQuick /\ [][NextStore]_vars

\* detectFacebookVersion over every page, one call at a time
NextDetect ==
    \/ \E u \in Urls, m \in Probes, d \in Probes : Detect("p1", u, m, d)
    \/ Respond("p1")

SpecDetect == Init /\ [][NextDetect]_vars

\* req.body.password of POST /login
Passwords == {<<"pw1">>, <<"pw2">>}

\* logins with any of the passwords and close-session requests, one at a time
NextSecret ==
    \/ \E pw \in Passwords :
          Quiet("p1") /\ StartLoginWith("p1", MainIdentity, "mobile", pw)
    \/ \E sid \in TargetIds : Quiet("p1") /\ StartClose("p1", sid)
    \/ \E p \in Procs : ContinueLogin(p, MaxSecretTime)
    \/ \E p \in Procs, w \in SaveResults : CloseSave(p, w)
    \/ \E p \in Procs, c \in CloseOutcomes : CloseBrowser(p, c)
    \/ \E p \in Procs : Respond(p)
    \/ \E b \in 1..MaxSecretTime : Render(b)

SpecSecret == Init /\ [][NextSecret]_vars

-----------------------------------------------------------------------------
(* Claims *)

LoginDone(p) == req[p].op = "login" /\ req[p].pc = "done"

SubmitDone(p) == req[p].op = "submit" /\ req[p].pc = "done"

CancelDone(p) == req[p].op = "cancel" /\ req[p].pc = "done"

HardFailures == {"noField", "noButton", "neither"}

\* C1: when a full login returns SecondFactorRequired, the returned session id
\* is a key of activeSessions and of pending2FASessions, both entries carry the
\* same identity and dialect, the browser of the session is open, and GET
\* /sessions and GET /pending-2fa both list the returned session id once.
C1_Returned2FAIsRegisteredAndPending ==
    \A p \in Procs :
        (LoginDone(p) /\ req[p].result.requires2FA) =>
            LET sid == req[p].result.sessionId
            IN  /\ sid \in DOMAIN activeSessions
                /\ PendingHas(pending2FASessions, sid)
                /\ activeSessions[sid].email = PendingGet(pending2FASessions, sid).email
                /\ activeSessions[sid].version = PendingGet(pending2FASessions, sid).version
                /\ IsOpen(activeSessions[sid].browser)
                /\ Cardinality({ e \in getActiveSessions : e.sessionId = sid }) = 1
                /\ Cardinality({ e \in getPending2FA : e.sessionId = sid }) = 1

\* C2: submitSecondFactor with a code the page accepts (after the submit the
\* second-factor check is false and the success check is true) returns Success.
C2_AcceptedCodeReturnsSuccess ==
    \A p \in Procs :
        (SubmitDone(p) /\ req[p].seen = "accepted") => req[p].result.success

\* C3: after submitSecondFactor with an accepted code the Pending record of the
\* session id is gone (so a later submit finds no session), a fresh artifact
\* bundle of the identity has been written by the session, and the Session
\* Record is still registered with its browser open.
C3_AcceptedCodeEffects ==
    \A p \in Procs :
        (SubmitDone(p) /\ req[p].seen = "accepted") =>
            /\ ~ PendingHas(pending2FASessions, req[p].sid)
            /\ CookieFileName(req[p].email) \in DOMAIN cookieFiles
            /\ cookieFiles[CookieFileName(req[p].email)].by = req[p].sid
            /\ req[p].sid \in DOMAIN activeSessions
            /\ IsOpen(activeSessions[req[p].sid].browser)

\* C4: the step of submitSecondFactor that finds the page still asking for the
\* second factor answers StillPending, is taken with the browser of the session
\* open, and changes neither pending2FASessions nor activeSessions nor any
\* browser: no record is removed, none is added, and the same session id can be
\* submitted again.
C4_WrongCodeKeepsSession ==
    [][\A p \in Procs :
          (req[p].op = "submit" /\ req[p].pc = "verify2FA" /\ SubmitDone(p)'
             /\ req'[p].seen = "wrong") =>
              /\ req'[p].result.status = 200
              /\ ~ req'[p].result.success
              /\ req'[p].result.stillRequires2FA
              /\ IsOpen(req[p].browser)
              /\ pending2FASessions' = pending2FASessions
              /\ activeSessions' = activeSessions
              /\ browsers' = browsers]_vars

C4_Witness ==
    \E p \in Procs :
        /\ SubmitDone(p) /\ req[p].seen = "wrong"
        /\ PendingHas(pending2FASessions, req[p].sid)
        /\ req[p].sid \in DOMAIN activeSessions
        /\ IsOpen(activeSessions[req[p].sid].browser)

C6_UnknownSessionNoEffect ==
    [][\A p \in Procs :
          (req[p].op = "idle" /\ req'[p].op = "submit"
             /\ ~ PendingHas(pending2FASessions, req'[p].sid)) =>
              /\ req'[p].pc = "done"
              /\ req'[p].result.status = 404
              /\ ~ req'[p].result.success
              /\ UNCHANGED <<activeSessions, pending2FASessions, browsers, page,
                             cookieFiles, sessionFiles, cacheDirs>>]_vars

C6_Witness ==
    \E p \in Procs :
        /\ SubmitDone(p) /\ req[p].result.status = 404
        /\ req[p].sid \in DOMAIN activeSessions
        /\ IsOpen(activeSessions[req[p].sid].browser)

\* C7: cancelSecondFactor on a session that awaits its second factor answers
\* Cancelled, and afterwards the Pending record is gone, the browser is closed
\* and the session id is in neither listing.
C7_CancelTearsDown ==
    \A p \in Procs :
        (CancelDone(p) /\ req[p].seen = "pending") =>
            /\ req[p].result.success
            /\ ~ PendingHas(pending2FASessions, req[p].sid)
            /\ ~ IsOpen(req[p].browser)
            /\ req[p].sid \notin { e.sessionId : e \in getActiveSessions }
            /\ req[p].sid \notin { e.sessionId : e \in getPending2FA }

\* C8: when a cancelSecondFactor and a submitSecondFactor for the same pending
\* session id have both been answered, exactly one of them succeeded and the
\* other was answered SessionNotFound, and the browser of the session is
\* closed or still referenced by a Session Record.
C8_RaceHasOneWinner ==
    \A p, q \in Procs :
        (CancelDone(p) /\ SubmitDone(q) /\ req[p].sid = req[q].sid
            /\ (req[p].seen = "pending" \/ req[q].seen # "none")) =>
            /\ \/ req[p].result.success /\ req[q].result.status = 404
               \/ req[q].result.success /\ req[p].result.status = 404
            /\ LET b == IF req[p].seen = "pending" THEN req[p].browser ELSE req[q].browser
               IN  \/ ~ IsOpen(b)
                   \/ \E k \in DOMAIN activeSessions : activeSessions[k].browser = b

\* C9: when an attempt inside login detects a second factor, login answers
\* requires2FA with the session id and the dialect of that attempt; the answer
\* is neither a server error nor BothVersionsFailed.
C9_SecondFactorSurfaced ==
    \A p \in Procs :
        (LoginDone(p) /\ req[p].seen = "2fa") =>
            /\ req[p].result.requires2FA
            /\ req[p].result.status = 401
            /\ req[p].result.sessionId # NoSid
            /\ req[p].result.sessionId = req[p].sid
            /\ req[p].result.version = <<req[p].version>>

\* C10: in auto-dialect login the mobile attempt runs first, a failure is
\* answered only after the desktop attempt was started, and the desktop
\* attempt is started only after the browser of the mobile attempt was closed
\* and its Session Record removed.
C10_DesktopAfterMobileCleanup ==
    \A p \in Procs :
        /\ (req[p].op = "login" /\ req[p].choice = "auto" /\ req[p].version = "desktop") =>
              /\ req[p].mobile.sid # NoSid
              /\ ~ IsOpen(req[p].mobile.browser)
              /\ req[p].mobile.sid \notin DOMAIN activeSessions
        /\ (LoginDone(p) /\ req[p].choice = "auto" /\ ~ req[p].result.success
              /\ ~ req[p].result.requires2FA) => req[p].version = "desktop"

\* C11: in auto-dialect login, when the mobile and the desktop attempt both
\* failed outright, login answers one failure whose error is
\* BOTH_VERSIONS_FAILED and whose detail carries the two attempts' messages.
C11_BothFailedIsCombined ==
    \A p \in Procs :
        (LoginDone(p) /\ req[p].choice = "auto" /\ req[p].version = "desktop"
            /\ ~ req[p].result.success /\ ~ req[p].result.requires2FA) =>
            /\ req[p].result.status = 401
            /\ req[p].result.error = <<"BOTH_VERSIONS_FAILED">>
            /\ Len(req[p].result.attempts) = 2

\* C12: every answered request carries a structured result of its operation
\* (success, failure or not found); no answer is the 500 that a route's
\* catch-all gives when an exception escaped the operation.
C12_NoExceptionEscapes ==
    \A p \in Procs :
        req[p].pc = "done" => req[p].result.status \in {200, 401, 404}

\* C13: whenever no request is being handled, every browser that was launched
\* and not closed is the browser of exactly one entry of activeSessions.
C13_NoLeakedBrowser ==
    (\A p \in Procs : req[p].op = "idle") =>
        \A b \in DOMAIN browsers :
            browsers[b] = "open" =>
                Cardinality({ k \in DOMAIN activeSessions :
                                activeSessions[k].browser = b }) = 1

\* C14: a full login attempt that ended with an exception other than the
\* second-factor signal has its browser closed, its Session Record removed and
\* no Pending record, and its result is a failure with a null session id whose
\* detail is the message of that exception.
C14_FailureTearsDown ==
    \A p \in Procs :
        (LoginDone(p) /\ req[p].choice # "auto" /\ req[p].err # <<>>
            /\ ~ Is2FASignal(req[p].err)) =>
            /\ ~ IsOpen(req[p].browser)
            /\ req[p].sid \notin DOMAIN activeSessions
            /\ ~ PendingHas(pending2FASessions, req[p].sid)
            /\ req[p].result.status = 401
            /\ ~ req[p].result.success
            /\ ~ req[p].result.requires2FA
            /\ req[p].result.sessionId = NoSid
            /\ req[p].result.error = req[p].err

\* C15: while the answer Success of a login stands, its session id is a key of
\* activeSessions, the record is the one of that login (it holds the login's
\* browser) and the browser is open; here no closeSession and no
\* cancelSecondFactor is ever called, so nothing may end the session.
C15_SuccessfulSessionStays ==
    \A p \in Procs :
        (LoginDone(p) /\ req[p].result.success) =>
            /\ req[p].result.sessionId \in DOMAIN activeSessions
            /\ activeSessions[req[p].result.sessionId].browser = req[p].browser
            /\ IsOpen(req[p].browser)

QuickDone(p) == req[p].op = "quick" /\ req[p].pc = "done"

\* what the arrival of a quick login without a usable bundle must look like:
\* NO_COOKIES with a null session id at once, nothing launched or registered
QuickRefused(p) ==
    /\ req'[p].pc = "done"
    /\ req'[p].result.status = 401
    /\ ~ req'[p].result.success
    /\ req'[p].result.error = <<"NO_COOKIES">>
    /\ req'[p].result.sessionId = NoSid
    /\ req'[p].browser = NoBrowser
    /\ UNCHANGED <<browsers, page, activeSessions, pending2FASessions,
                   cookieFiles, sessionFiles, cacheDirs, now>>

\* C16: a quick login of an identity that has no stored bundle, whatever the
\* dialect choice, is answered NO_COOKIES with a null session id by its first
\* step; that step launches no browser and adds no entry to activeSessions.
C16_NoBundleNoLaunch ==
    [][\A p \in Procs :
          (req[p].op = "idle" /\ req'[p].op = "quick"
             /\ CookieFileName(req'[p].email) \notin DOMAIN cookieFiles) =>
              QuickRefused(p)]_vars

C16_Witness ==
    \E p \in Procs :
        /\ QuickDone(p) /\ req[p].choice = "auto"
        /\ req[p].result.error = <<"NO_COOKIES">>
        /\ CookieFileName(req[p].email) \notin DOMAIN cookieFiles
        /\ browsers = <<>>

\* C17: a quick login of an identity whose stored bundle is older than maxAge
\* is answered as if there were no bundle (NO_COOKIES, nothing launched or
\* registered); with a bundle whose age is at most maxAge the attempt goes on
\* to launch its browser.
C17_ExpiredBundleIsNoBundle ==
    [][\A p \in Procs :
          (req[p].op = "idle" /\ req'[p].op = "quick"
             /\ CookieFileName(req'[p].email) \in DOMAIN cookieFiles) =>
              IF now - cookieFiles[CookieFileName(req'[p].email)].timestamp > maxAge
              THEN QuickRefused(p)
              ELSE req'[p].pc = "quickLaunch" /\ req'[p].version \in {"mobile", req'[p].choice}]_vars

C17_Witness ==
    \E p \in Procs :
        /\ QuickDone(p)
        /\ req[p].result.error = <<"NO_COOKIES">>
        /\ CookieFileName(req[p].email) \in DOMAIN cookieFiles
        /\ now - cookieFiles[CookieFileName(req[p].email)].timestamp = maxAge + 1

\* C18: a single-dialect quick login that had a usable bundle and whose
\* outcome was not Success (success check false, or page.goto rejected) is
\* answered QUICK_LOGIN_FAILED with its browser closed and its Session Record
\* removed.
C18_QuickFailureTearsDown ==
    \A p \in Procs :
        (QuickDone(p) /\ req[p].choice # "auto" /\ req[p].seen = "notSuccess") =>
            /\ req[p].result.status = 401
            /\ req[p].result.error = <<"QUICK_LOGIN_FAILED">>
            /\ ~ IsOpen(req[p].browser)
            /\ req[p].sid \notin DOMAIN activeSessions

\* C19: during quick logins the stored bundle and the storage snapshot change
\* only in the step that saves after a positive success check and returns
\* Success; no step of an attempt that ends in QUICK_LOGIN_FAILED or
\* NO_COOKIES writes them.
C19_WriteOnlyOnSuccess ==
    [][(cookieFiles' # cookieFiles \/ sessionFiles' # sessionFiles) =>
          \E p \in Procs :
              /\ req[p].op = "quick" /\ req[p].pc = "quickSave"
              /\ QuickDone(p)' /\ req'[p].result.success]_vars

C19_Witness ==
    \E p \in Procs :
        /\ QuickDone(p)
        /\ req[p].result.error = <<"QUICK_LOGIN_FAILED">>
        /\ cookieFiles \in StoredBundles
        /\ CookieFileName(req[p].email) \in DOMAIN cookieFiles

\* C20: an auto-dialect quick login that had a usable bundle and ended without
\* success after its desktop attempt is answered BOTH_VERSIONS_FAILED with the
\* messages of the mobile and the desktop attempt, both browsers are closed
\* and neither attempt's Session Record is left.
C20_QuickBothFailed ==
    \A p \in Procs :
        (QuickDone(p) /\ req[p].choice = "auto" /\ req[p].version = "desktop"
            /\ ~ req[p].result.success /\ req[p].first.error # <<"NO_COOKIES">>) =>
            /\ req[p].result.status = 401
            /\ req[p].result.error = <<"BOTH_VERSIONS_FAILED">>
            /\ Len(req[p].result.attempts) = 2
            /\ req[p].result.attempts[1] = req[p].first.message
            /\ ~ IsOpen(req[p].mobile.browser)
            /\ ~ IsOpen(req[p].browser)
            /\ req[p].mobile.sid \notin DOMAIN activeSessions
            /\ req[p].sid \notin DOMAIN activeSessions

\* C21: a session that awaits its second factor does not stay suspended for
\* ever: when the server holds a Pending record and handles no request, then
\* eventually the Pending record is removed, unless a new request arrives.
C21_PendingEventuallyRemoved ==
    (pending2FASessions # <<>> /\ \A p \in Procs : req[p].op = "idle")
        ~> (pending2FASessions = <<>> \/ \E p \in Procs : req[p].op # "idle")

\* C22: every session id in pending2FASessions is a key of activeSessions
\* whose browser is open.
C22_PendingHasOpenSession ==
    \A i \in 1..Len(pending2FASessions) :
        /\ pending2FASessions[i].sid \in DOMAIN activeSessions
        /\ IsOpen(activeSessions[pending2FASessions[i].sid].browser)

\* C23: two login attempts that are being handled at the same time never have
\* the same session id.
C23_SessionIdsUnique ==
    \A p, q \in Procs :
        (p # q /\ req[p].op = "login" /\ req[q].op = "login") =>
            req[p].sid # req[q].sid

CloseDone(p) == req[p].op = "close" /\ req[p].pc = "done"

\* C29: once closeSession has returned Closed, the id is not a key of
\* activeSessions and the browser of the session is closed; when it has
\* returned NotFound, it has touched no session.
C29_ClosedMeansGone ==
    \A p \in Procs :
        CloseDone(p) =>
            /\ req[p].result = Closed200 =>
                  /\ req[p].sid \notin DOMAIN activeSessions
                  /\ ~ IsOpen(req[p].browser)
            /\ req[p].result = CloseNotFound => req[p].browser = NoBrowser

\* C28: a cancel-2fa for an id without a Pending record answers NotFound and
\* changes nothing: a session registered under that id keeps its record.
C28_CancelWithoutPendingIsNotFound ==
    \A p \in Procs :
        (CancelDone(p) /\ req[p].seen = "none") =>
            /\ req[p].result.status = 404
            /\ ~ req[p].result.success
            /\ req[p].browser # NoBrowser => req[p].sid \in DOMAIN activeSessions

\* C30: whenever login, quick login or submit-2fa has reported Success, the
\* store holds a bundle of the identity that is not expired and was written by
\* the session whose id is returned.
C30_SuccessHasFreshBundle ==
    \A p \in Procs :
        (/\ req[p].op \in {"login", "quick", "submit"}
         /\ req[p].pc = "done"
         /\ req[p].result.success) =>
            /\ loadCookies(cookieFiles, req[p].email, now)
            /\ cookieFiles[CookieFileName(req[p].email)].by = req[p].result.sessionId

\* C24: the sanitized name identifies the identity: the identity that the
\* reverse mapping gives for the name of a stored cookie file is the identity
\* the file was written for, and a cookie file that has the name of the
\* identity of a quick login or of a deletion is a file of that identity.
C24_SanitizedNameIdentifies ==
    /\ \A n \in DOMAIN cookieFiles : emailOfKey(KeyOf(n)) = cookieFiles[n].email
    /\ \A p \in Procs :
          (/\ req[p].op \in {"quick", "delete"}
           /\ CookieFileName(req[p].email) \in DOMAIN cookieFiles) =>
              cookieFiles[CookieFileName(req[p].email)].email = req[p].email

DeleteDone(p) == req[p].op = "delete" /\ req[p].pc = "done"

\* the stored items of an identity: cookie file, session file, cache directories
ItemsOf(email, cookies, sessions, dirs) ==
    (IF CookieFileName(email) \in DOMAIN cookies THEN 1 ELSE 0)
      + (IF SessionFileName(email) \in DOMAIN sessions THEN 1 ELSE 0)
      + Cardinality({v \in Versions : CacheDirName(email, v) \in dirs})

\* C25: a deletion of an identity's data reports as filesDeleted the number of
\* the identity's stored items that existed before it, and after it neither
\* the cookie file nor the session file nor a cache directory of the identity
\* is left.
C25_DeleteRemovesAll ==
    [][\A p \in Procs :
          (req[p].op = "idle" /\ req'[p].op = "delete") =>
              /\ req'[p].result.filesDeleted =
                    ItemsOf(req'[p].email, cookieFiles, sessionFiles, cacheDirs)
              /\ ItemsOf(req'[p].email, cookieFiles', sessionFiles', cacheDirs') = 0]_vars

CleanDone(p) == req[p].op = "clean" /\ req[p].pc = "done"

C27_ReadingKeepsStore ==
    [][/\ \A p \in Procs :
            (req[p].op = "idle" /\ req'[p].op \in {"quick", "list"}) =>
                UNCHANGED <<cookieFiles, sessionFiles, cacheDirs>>
       /\ (\/ \E n \in DOMAIN cookieFiles : n \notin DOMAIN cookieFiles'
           \/ \E n \in DOMAIN sessionFiles : n \notin DOMAIN sessionFiles') =>
             \E p \in Procs :
                 req[p].op = "idle" /\ req'[p].op \in {"clean", "delete"}]_vars

\* a quick login was refused over an expired bundle, and the bundle is still stored
C27_Witness ==
    \E p \in Procs :
        /\ QuickDone(p)
        /\ req[p].result.error = <<"NO_COOKIES">>
        /\ CookieFileName(req[p].email) \in DOMAIN cookieFiles
        /\ ~ loadCookies(cookieFiles, req[p].email, now)
        /\ cookieFiles[CookieFileName(req[p].email)].email = req[p].email

\* the registry with the password of every Session Record blanked
WithoutPasswords(sessions) ==
    [k \in DOMAIN sessions |-> [sessions[k] EXCEPT !.password = <<>>]]

\* what a stored file holds that a caller's input could have put there
Written(file) == {file.email, file.by}

\* C31: the password of a login is in no written cookie file or session file
\* and in no entry of GET /sessions or GET /pending-2fa, and the listing of the
\* sessions is the one the server would give if every password were blank.
C31_PasswordNeverStored ==
    /\ getActiveSessions = SessionList(WithoutPasswords(activeSessions))
    /\ \A e \in getActiveSessions :
          DOMAIN e = {"sessionId", "email", "version", "quickLogin", "createdAt"}
    /\ \A e \in getPending2FA :
          /\ DOMAIN e = {"sessionId", "email", "version", "timestamp"}
          /\ {e.sessionId, e.email} \cap Passwords = {}
    /\ \A n \in DOMAIN cookieFiles :
          /\ DOMAIN cookieFiles[n] = {"email", "by", "timestamp"}
          /\ Written(cookieFiles[n]) \cap Passwords = {}
    /\ \A n \in DOMAIN sessionFiles :
          /\ DOMAIN sessionFiles[n] = {"email", "by", "timestamp"}
          /\ Written(sessionFiles[n]) \cap Passwords = {}

\* a session that holds a password is registered and listed, and has written
\* its cookie file and its session file
C31_Witness ==
    \E k \in DOMAIN activeSessions :
        /\ activeSessions[k].password \in Passwords
        /\ \E e \in getActiveSessions : e.sessionId = k
        /\ \E n \in DOMAIN cookieFiles : cookieFiles[n].by = k
        /\ \E n \in DOMAIN sessionFiles : sessionFiles[n].by = k

\* a request of route op for session id sid is between its lookup and its answer
Handling(p, ops, sid) ==
    /\ req[p].op \in ops
    /\ req[p].pc \notin {"idle", "done"}
    /\ req[p].sid = sid

\* C32: while a submit-2fa request is between its lookup of the Pending record
\* and its answer, no other submit-2fa, cancel-2fa or close-session request
\* for the same session id is between its lookup and its answer.
C32_OneStepPerSession ==
    \A p, q \in Procs :
        (p # q /\ Handling(p, {"submit"}, req[p].sid)) =>
            ~ Handling(q, {"submit", "cancel", "close"}, req[p].sid)

LadderSteps == {"check1", "check2", "check3"}

\* C33: after the click of a full login the second-factor check runs first,
\* each further check follows a negative one, the attempt goes to the
\* second-factor branch at the first positive check and to the success check
\* only from a negative third check.
C33_LadderOfThreeChecks ==
    [][\A p \in Procs :
          (req[p].op = "login" /\ req'[p].pc # req[p].pc) =>
              /\ req'[p].pc = "check1" => req[p].pc = "click"
              /\ req'[p].pc = "check2" =>
                    req[p].pc = "check1" /\ ~ checkFor2FA(req[p].browser)
              /\ req'[p].pc = "check3" =>
                    req[p].pc = "check2" /\ ~ checkFor2FA(req[p].browser)
              /\ req'[p].pc = "checkSuccess" =>
                    req[p].pc = "check3" /\ ~ checkFor2FA(req[p].browser)
              /\ req'[p].pc = "snap2fa" =>
                    req[p].pc \in LadderSteps /\ checkFor2FA(req[p].browser)
              /\ req[p].pc \in LadderSteps =>
                    req'[p].pc \in (LadderSteps \cup {"checkSuccess", "snap2fa"})
              /\ (req[p].pc \in LadderSteps /\ checkFor2FA(req[p].browser)) =>
                    req'[p].pc = "snap2fa"]_vars

\* the second-factor page has rendered after two negative checks: the third
\* check is the one that is positive
C33_Witness ==
    \E p \in Procs :
        /\ req[p].op = "login" /\ req[p].pc = "check3"
        /\ checkFor2FA(req[p].browser)

\* C34: a step that classifies an outcome as Success (full login, quick login
\* or submit-2fa) is never taken on a page for which checkFor2FA is true.
C34_SecondFactorBeforeSuccess ==
    [][\A p \in Procs :
          (/\ req[p].pc \in {"checkSuccess", "quickCheck", "verifySuccess"}
           /\ \/ req'[p].pc \in {"save", "quickSave"}
              \/ req'[p].seen = "accepted") =>
              ~ checkFor2FA(req[p].browser)]_vars

\* C35: on every page for which checkFor2FA returns true checkLoginSuccess
\* returns false.
C35_SecondFactorPageIsNoSuccess ==
    \A b \in 1..Len(browsers) : checkFor2FA(b) => ~ checkLoginSuccess(b)

DetectDone(p) == req[p].op = "detect" /\ req[p].pc = "done"

\* C36: detectFacebookVersion answers mobile or desktop for every page: mobile
\* when the URL contains m.facebook.com, else desktop when it contains
\* facebook.com, else mobile when the mobile marker is visible, else desktop
\* when the mobile marker is hidden and the desktop marker is visible, and
\* mobile in every other case, a failed probe included.
C36_DetectsOneDialect ==
    \A p \in Procs :
        DetectDone(p) =>
            LET shown == page[req[p].browser]
                answer == req[p].result.version
                mobileUrl == \E i \in 1..(Len(shown.url) - 1) :
                                 shown.url[i] = "m." /\ shown.url[i + 1] = "facebook.com"
                anyUrl == \E i \in 1..Len(shown.url) : shown.url[i] = "facebook.com"
            IN  /\ answer \in {<<"mobile">>, <<"desktop">>}
                /\ mobileUrl => answer = <<"mobile">>
                /\ (~ mobileUrl /\ anyUrl) => answer = <<"desktop">>
                /\ (~ anyUrl /\ shown.mobileIndicator = "visible") => answer = <<"mobile">>
                /\ (~ anyUrl /\ shown.mobileIndicator = "hidden"
                      /\ shown.desktopIndicator = "visible") => answer = <<"desktop">>
                /\ (~ anyUrl /\ shown.mobileIndicator = "hidden"
                      /\ shown.desktopIndicator # "visible") => answer = <<"mobile">>
                /\ (~ anyUrl /\ shown.mobileIndicator = "throws") => answer = <<"mobile">>

\* a page without facebook.com in its URL whose mobile probe failed while its
\* desktop marker is visible was classified
C36_Witness ==
    \E p \in Procs :
        /\ DetectDone(p)
        /\ page[req[p].browser].url = <<"about:blank">>
        /\ page[req[p].browser].mobileIndicator = "throws"
        /\ page[req[p].browser].desktopIndicator = "visible"

\* the login form is on the open page of the attempt, so a field can be located
FormShown(p) == IsOpen(req[p].browser) /\ page[req[p].browser] = "login"

\* C37: a full login attempt takes its steps in the order navigate, identity
\* field, secret field, login control, click, classification: each step is
\* entered only from the step before it, the secret field and the login
\* control only after the field before was located on the login form, and
\* the first classification only from the click.
C37_StepsInOrder ==
    [][\A p \in Procs :
          (req[p].op = "login" /\ req'[p].op = "login" /\ req'[p].pc # req[p].pc) =>
              /\ req'[p].pc = "goto" => req[p].pc = "launch"
              /\ req'[p].pc = "fillEmail" => req[p].pc = "goto"
              /\ req'[p].pc = "fillPassword" => req[p].pc = "fillEmail" /\ FormShown(p)
              /\ req'[p].pc = "waitButton" => req[p].pc = "fillPassword" /\ FormShown(p)
              /\ req'[p].pc = "click" => req[p].pc = "waitButton"
              /\ req'[p].pc = "check1" => req[p].pc = "click"
              /\ req'[p].pc \in {"check2", "check3", "snap2fa", "checkSuccess", "save"} =>
                    req[p].pc \in {"check1", "check2", "check3", "checkSuccess"}]_vars

\* an attempt has clicked the login control and stands before its first
\* classification of the page the site answered with
C37_Witness ==
    \E p \in Procs :
        /\ req[p].op = "login" /\ req[p].pc = "check1"
        /\ IsOpen(req[p].browser)
        /\ page[req[p].browser] \in AfterSubmitPages \ {"login"}

\* C38: the login control that a full login is about to click was found
\* without a spinner; when no control without a spinner was found within the
\* budget, the attempt does not reach the click.
C38_ClicksReadyControl ==
    \A p \in Procs :
        (req[p].op = "login" /\ req[p].pc = "click") => req[p].seen # "busy"

\* C40: the session id and the dialect that a login returns with requires2FA
\* are the key and the dialect of the Pending record that the attempt of this
\* login created.
C40_Returned2FAIdIsOwn ==
    \A p \in Procs :
        (LoginDone(p) /\ req[p].result.requires2FA) =>
            /\ req[p].seen = "2fa"
            /\ req[p].result.sessionId = req[p].sid
            /\ req[p].result.version = <<req[p].version>>
            /\ PendingHas(pending2FASessions, req[p].result.sessionId)

\* C39: the cookie file and the session file of an identity change only in the
\* saving step of a session that was classified Success; the close of a
\* session that still awaits its second factor leaves them unchanged.
C39_BundleOnlyFromSuccess ==
    [][(cookieFiles' # cookieFiles \/ sessionFiles' # sessionFiles) =>
          \E p \in Procs :
              /\ req'[p] # req[p]
              /\ \/ req[p].pc \in {"save", "quickSave", "save2FA"}
                 \/ /\ req[p].pc = "closeSave"
                    /\ ~ PendingHas(pending2FASessions, req[p].sid)]_vars

====
